---- MODULE Spec2Model ----
(***************************************************************************)
(* Sandboxed JavaScript execution engine (src/lib/safe-js-run.ts):         *)
(* validateCodeSafety, createSafeEnvironment, execute and safeJsRun, run   *)
(* on a single-threaded host with a microtask queue and timers.            *)
(*                                                                         *)
(* Source text is a sequence of one-character strings.  JavaScript values  *)
(* are tagged records.  Message texts are sequences of string parts.       *)
(***************************************************************************)
EXTENDS Integers, Sequences, FiniteSets, TLC

(***************************************************************************)
(* Characters and RegExp matching                                          *)
(***************************************************************************)

\* String.prototype.toUpperCase on the ASCII letters, used by the "i" flag
ToUpper ==
       ("a" :> "A") @@ ("b" :> "B") @@ ("c" :> "C") @@ ("d" :> "D") @@ ("e" :> "E") @@ ("f" :> "F")
    @@ ("g" :> "G") @@ ("h" :> "H") @@ ("i" :> "I") @@ ("j" :> "J") @@ ("k" :> "K") @@ ("l" :> "L")
    @@ ("m" :> "M") @@ ("n" :> "N") @@ ("o" :> "O") @@ ("p" :> "P") @@ ("q" :> "Q") @@ ("r" :> "R")
    @@ ("s" :> "S") @@ ("t" :> "T") @@ ("u" :> "U") @@ ("v" :> "V") @@ ("w" :> "W") @@ ("x" :> "X")
    @@ ("y" :> "Y") @@ ("z" :> "Z")
Digits == {"0", "1", "2", "3", "4", "5", "6", "7", "8", "9"}

Letters == DOMAIN ToUpper \cup {ToUpper[c] : c \in DOMAIN ToUpper}

\* \w of a RegExp without the "u" flag
WordChars == Letters \cup Digits \cup {"_"}

\* \s, restricted to the white space that occurs in the modelled texts
SpaceChars == {" ", "\n"}

\* the backquote character (a TLA+ string cannot hold it) under its code point
Backquote == "U+0060"

QuoteChars == {"'", "\"", Backquote}

IdStartChars == Letters \cup {"_", "$"}

IdPartChars == IdStartChars \cup Digits

\* the characters of the words that occur in the patterns
Chars ==
       ("window" :> <<"w","i","n","d","o","w">>)
    @@ ("document" :> <<"d","o","c","u","m","e","n","t">>)
    @@ ("globalThis" :> <<"g","l","o","b","a","l","T","h","i","s">>)
    @@ ("self" :> <<"s","e","l","f">>)
    @@ ("parent" :> <<"p","a","r","e","n","t">>)
    @@ ("top" :> <<"t","o","p">>)
    @@ ("frames" :> <<"f","r","a","m","e","s">>)
    @@ ("opener" :> <<"o","p","e","n","e","r">>)
    @@ ("eval" :> <<"e","v","a","l">>)
    @@ ("constructor" :> <<"c","o","n","s","t","r","u","c","t","o","r">>)
    @@ ("prototype" :> <<"p","r","o","t","o","t","y","p","e">>)
    @@ ("__proto__" :> <<"_","_","p","r","o","t","o","_","_">>)
    @@ ("process" :> <<"p","r","o","c","e","s","s">>)
    @@ ("require" :> <<"r","e","q","u","i","r","e">>)
    @@ ("module" :> <<"m","o","d","u","l","e">>)
    @@ ("exports" :> <<"e","x","p","o","r","t","s">>)
    @@ ("__dirname" :> <<"_","_","d","i","r","n","a","m","e">>)
    @@ ("__filename" :> <<"_","_","f","i","l","e","n","a","m","e">>)
    @@ ("global" :> <<"g","l","o","b","a","l">>)
    @@ ("Worker" :> <<"W","o","r","k","e","r">>)
    @@ ("SharedWorker" :> <<"S","h","a","r","e","d","W","o","r","k","e","r">>)
    @@ ("ServiceWorker" :> <<"S","e","r","v","i","c","e","W","o","r","k","e","r">>)
    @@ ("MessageChannel" :> <<"M","e","s","s","a","g","e","C","h","a","n","n","e","l">>)
    @@ ("FileReader" :> <<"F","i","l","e","R","e","a","d","e","r">>)
    @@ ("Blob" :> <<"B","l","o","b">>)
    @@ ("File" :> <<"F","i","l","e">>)
    @@ ("FileSystem" :> <<"F","i","l","e","S","y","s","t","e","m">>)
    @@ ("XMLHttpRequest" :> <<"X","M","L","H","t","t","p","R","e","q","u","e","s","t">>)
    @@ ("WebSocket" :> <<"W","e","b","S","o","c","k","e","t">>)
    @@ ("EventSource" :> <<"E","v","e","n","t","S","o","u","r","c","e">>)
    @@ ("while" :> <<"w","h","i","l","e">>)
    @@ ("for" :> <<"f","o","r">>)
    @@ ("true" :> <<"t","r","u","e">>)
    @@ ("new" :> <<"n","e","w">>)
    @@ ("Function" :> <<"F","u","n","c","t","i","o","n">>)

\* a comparison of characters that tells the letter cases apart
CanonicalizeExact(c) == c

Canonicalize(c) == IF c \in DOMAIN ToUpper THEN ToUpper[c] ELSE c

\* one pattern element: a character class with a quantifier, or \b
One(cls) == [q |-> "1", cls |-> cls]

\* a starred class that no character matches
StarOfNothing(cls) == [q |-> "*", cls |-> {}]

Star(cls) == [q |-> "*", cls |-> cls]

Plus(cls) == [q |-> "+", cls |-> cls]

WordBoundary == [q |-> "b", cls |-> {}]

Lit(w) == [n \in 1..Len(w) |-> One({w[n]})]

ClassMatch(cls, ch, ignoreCase) ==
    IF ignoreCase
    THEN \E c \in cls : Canonicalize(c) = Canonicalize(ch)
    ELSE ch \in cls

IsWordAt(s, pos) == pos >= 1 /\ pos <= Len(s) /\ s[pos] \in WordChars

\* \b holds between position pos-1 and pos
AtBoundary(s, pos) == IsWordAt(s, pos - 1) # IsWordAt(s, pos)

RECURSIVE MatchHere(_, _, _, _, _)
MatchHere(pat, i, s, pos, ignoreCase) ==
    IF i > Len(pat) THEN TRUE
    ELSE LET e == pat[i]
             hit == pos <= Len(s) /\ ClassMatch(e.cls, s[pos], ignoreCase)
         IN CASE e.q = "b" -> AtBoundary(s, pos)
                                /\ MatchHere(pat, i + 1, s, pos, ignoreCase)
              [] e.q = "1" -> hit /\ MatchHere(pat, i + 1, s, pos + 1, ignoreCase)
              [] e.q = "*" -> \/ MatchHere(pat, i + 1, s, pos, ignoreCase)
                              \/ hit /\ MatchHere(pat, i, s, pos + 1, ignoreCase)
              [] e.q = "+" -> hit /\ (\/ MatchHere(pat, i + 1, s, pos + 1, ignoreCase)
                                      \/ MatchHere(pat, i, s, pos + 1, ignoreCase))

\* RegExp.prototype.test of a freshly created RegExp (lastIndex = 0): is
\* there a match of one of the alternatives starting anywhere in s
RegExpTest(re, s) ==
    \E alt \in re.alts : \E pos \in 1..(Len(s) + 1) :
        MatchHere(alt, 1, s, pos, re.ignoreCase)

(***************************************************************************)
(* validateCodeSafety                                                      *)
(***************************************************************************)

FORBIDDEN_KEYWORDS == <<
    "window", "document", "globalThis", "self", "parent",
    "top", "frames", "opener", "eval", "constructor",
    "prototype", "__proto__", "process", "require", "module",
    "exports", "__dirname", "__filename", "global", "Worker",
    "SharedWorker", "ServiceWorker", "MessageChannel", "FileReader", "Blob",
    "File", "FileSystem", "XMLHttpRequest", "WebSocket", "EventSource" >>

\* the keyword test without the "i" flag
KeywordRegExpCaseSensitive(keyword) ==
    [alts |-> {<<WordBoundary>> \o Lit(Chars[keyword]) \o <<WordBoundary>>},
     ignoreCase |-> FALSE]

\* new RegExp("\\b" + keyword + "\\b", "i")
KeywordRegExp(keyword) ==
    [alts |-> {<<WordBoundary>> \o Lit(Chars[keyword]) \o <<WordBoundary>>},
     ignoreCase |-> TRUE]

infiniteLoopPatterns == <<
    [pattern |-> [alts |-> {Lit(Chars["while"]) \o <<Star(SpaceChars), One({"("}),
                            Star(SpaceChars)>> \o Lit(Chars["true"])
                            \o <<Star(SpaceChars), One({")"})>>},
                  ignoreCase |-> TRUE],
     message |-> "Infinite while loop detected"],
    [pattern |-> [alts |-> {Lit(Chars["for"]) \o <<Star(SpaceChars), One({"("}),
                            Star(SpaceChars), One({";"}), Star(SpaceChars),
                            One({";"}), Star(SpaceChars), One({")"})>>},
                  ignoreCase |-> TRUE],
     message |-> "Infinite for loop detected"],
    [pattern |-> [alts |-> {Lit(Chars["while"]) \o <<Star(SpaceChars), One({"("}),
                            Star(SpaceChars), One({"1"}), Star(SpaceChars),
                            One({")"})>>},
                  ignoreCase |-> TRUE],
     message |-> "Infinite while loop detected"],
    [pattern |-> [alts |-> {Lit(Chars["for"]) \o <<Star(SpaceChars), One({"("}),
                            Star(SpaceChars), One({";"}), Star(SpaceChars)>>
                            \o Lit(Chars["true"]) \o <<Star(SpaceChars),
                            One({";"}), Star(SpaceChars), One({")"})>>},
                  ignoreCase |-> TRUE],
     message |-> "Infinite for loop detected"] >>

suspiciousPatterns == <<
    [pattern |-> [alts |-> {<<One(QuoteChars), Star(SpaceChars), One({"+"}),
                              Star(SpaceChars), One(QuoteChars)>>},
                  ignoreCase |-> FALSE],
     message |-> "String concatenation to access globals"],
    [pattern |-> [alts |-> {<<One({"["}), One(QuoteChars), One(IdStartChars),
                              Star(IdPartChars), One(QuoteChars), One({"]"})>>},
                  ignoreCase |-> FALSE],
     message |-> "Dynamic property access"],
    [pattern |-> [alts |-> {Lit(Chars["eval"]) \o <<Star(SpaceChars), One({"("})>>},
                  ignoreCase |-> TRUE],
     message |-> "Dynamic code evaluation"],
    [pattern |-> [alts |-> {Lit(Chars["new"]) \o <<Plus(SpaceChars)>>
                              \o Lit(Chars["Function"])
                              \o <<Star(SpaceChars), One({"("})>>,
                            Lit(Chars["Function"])
                              \o <<Star(SpaceChars), One({"("})>>},
                  ignoreCase |-> TRUE],
     message |-> "Function constructor"],
    [pattern |-> [alts |-> {Lit(Chars["constructor"])
                              \o <<Star(SpaceChars), One({"("})>>},
                  ignoreCase |-> TRUE],
     message |-> "Constructor access"],
    [pattern |-> [alts |-> {Lit(Chars["prototype"])
                              \o <<Star(SpaceChars), One({"["})>>},
                  ignoreCase |-> TRUE],
     message |-> "Prototype manipulation"],
    [pattern |-> [alts |-> {Lit(Chars["__proto__"]),
                            <<One({"."})>> \o Lit(Chars["constructor"])},
                  ignoreCase |-> TRUE],
     message |-> "Prototype chain access"] >>

\* the JavaScript null
Null == [t |-> "null"]

\* a string value, its text given as a sequence of parts
Str(parts) == [t |-> "string", v |-> parts]

\* index of the last TRUE of a sequence of truth values, 0 if none
LastHit(hits) ==
    IF \E n \in DOMAIN hits : hits[n]
    THEN CHOOSE n \in DOMAIN hits : hits[n] /\ \A m \in DOMAIN hits : m > n => ~hits[m]
    ELSE 0

\* index of the first TRUE of a sequence of truth values, 0 if none: the
\* element at which a for loop over the tests returns
FirstHit(hits) ==
    IF \E n \in DOMAIN hits : hits[n]
    THEN CHOOSE n \in DOMAIN hits : hits[n] /\ \A m \in 1..(n - 1) : ~hits[m]
    ELSE 0

\* the validation without its loop over suspiciousPatterns
validateCodeSafetyWithoutSuspicious(code) ==
    LET k == FirstHit([n \in DOMAIN FORBIDDEN_KEYWORDS |->
                        RegExpTest(KeywordRegExp(FORBIDDEN_KEYWORDS[n]), code)])
        l == FirstHit([n \in DOMAIN infiniteLoopPatterns |->
                        RegExpTest(infiniteLoopPatterns[n].pattern, code)])
    IN IF k # 0
       THEN Str(<<"Forbidden keyword: '", FORBIDDEN_KEYWORDS[k],
                  "' - not allowed for security reasons">>)
       ELSE IF l # 0
       THEN Str(<<"Dangerous infinite loop pattern: ", infiniteLoopPatterns[l].message>>)
       ELSE Null

validateCodeSafety(code) ==
    LET k == FirstHit([n \in DOMAIN FORBIDDEN_KEYWORDS |->
                        RegExpTest(KeywordRegExp(FORBIDDEN_KEYWORDS[n]), code)])
        l == FirstHit([n \in DOMAIN infiniteLoopPatterns |->
                        RegExpTest(infiniteLoopPatterns[n].pattern, code)])
        p == FirstHit([n \in DOMAIN suspiciousPatterns |->
                        RegExpTest(suspiciousPatterns[n].pattern, code)])
    IN IF k # 0
       THEN Str(<<"Forbidden keyword: '", FORBIDDEN_KEYWORDS[k],
                  "' - not allowed for security reasons">>)
       ELSE IF l # 0
       THEN Str(<<"Dangerous infinite loop pattern: ", infiniteLoopPatterns[l].message>>)
       ELSE IF p # 0
       THEN Str(<<"Suspicious pattern detected: ", suspiciousPatterns[p].message>>)
       ELSE Null

(***************************************************************************)
(* Bounds                                                                  *)
(***************************************************************************)

\* console and setResult calls the sandboxed code may make in one request
MaxOps == 2

\* callbacks the sandboxed code may schedule in one request
MaxCallbacks == 1

\* clock ticks the body of the sandboxed code may take to run
MaxTime == 2

\* largest timeout of a request, in clock ticks
MaxTimeout == 1

\* fragments concatenated into a scanned code text
MaxFrags == 2

\* keys of an input map
MaxKeys == 1

\* white space characters between two tokens of a loop header or a call
MaxSpaces == 1

(***************************************************************************)
(* JavaScript values                                                       *)
(***************************************************************************)

Undefined == [t |-> "undefined"]

Num(n) == [t |-> "number", v |-> n]

\* an Error object: its class name and its message text
ErrorVal(name, message) == [t |-> "Error", name |-> name, message |-> message]

\* a host object or a closure of the core, known by its identity
Core(id) == [t |-> "core", v |-> id]

\* an object is the sequence of its properties, in insertion order
EmptyObject == <<>>

Prop(key, value) == [key |-> key, value |-> value]

Has(o, k) == \E n \in DOMAIN o : o[n].key = k

Get(o, k) == o[CHOOSE n \in DOMAIN o : o[n].key = k].value

\* o[k] = v: an existing key keeps its place, a new key goes last
Define(o, k, v) ==
    IF Has(o, k)
    THEN [n \in DOMAIN o |-> IF o[n].key = k THEN Prop(k, v) ELSE o[n]]
    ELSE Append(o, Prop(k, v))

\* { ...target, ...source }
RECURSIVE Spread(_, _)
Spread(target, source) ==
    IF source = <<>> THEN target
    ELSE Spread(Define(target, Head(source).key, Head(source).value), Tail(source))

\* Object.keys(o)
ObjectKeys(o) == [n \in DOMAIN o |-> o[n].key]

\* Object.values(o)
ObjectValues(o) == [n \in DOMAIN o |-> o[n].value]

\* a promise is pending, fulfilled with a value or rejected with a reason
Pending == [state |-> "pending"]

Fulfilled(v) == [state |-> "fulfilled", value |-> v]

Rejected(r) == [state |-> "rejected", reason |-> r]

\* no second activation of execute
NoActivation == [pc |-> "none"]

\* an activation that no onmessage call of the worker runs
NoHandler == [state |-> "none", type |-> "", id |-> "", posts |-> <<>>]

\* v.message for any value that is not null or undefined
MessageOf(v) == IF v.t = "Error" THEN Str(v.message) ELSE Undefined

\* ToBoolean on the values that reach a || test
Truthy(v) == v.t = "string" /\ v.v # <<>>

\* the fallback taken whatever a is
OrElseAlways(a, b) == b

\* a || b
OrElse(a, b) == IF Truthy(a) THEN a ELSE b

(***************************************************************************)
(* createSafeEnvironment                                                   *)
(***************************************************************************)

AllowListed ==
    <<"Math", "JSON", "Date", "Array", "Object", "String", "Number", "Boolean",
      "RegExp", "Promise", "parseInt", "parseFloat", "isNaN", "isFinite",
      "encodeURIComponent", "decodeURIComponent">>

BrowserApis ==
    <<"fetch", "setTimeout", "setInterval", "clearTimeout", "clearInterval",
      "btoa", "atob">>

\* the six methods of safeConsole, all bound to logCapture
safeConsole == Core("safeConsole")

\* typeof window !== "undefined" && { fetch: ..., setTimeout: ..., ... }
BrowserGlobals(window) ==
    IF window THEN [n \in DOMAIN BrowserApis |-> Prop(BrowserApis[n], Core(BrowserApis[n]))]
    ELSE EmptyObject

\* the environment with the input map spread last
createSafeEnvironmentInputLast(in, window) ==
    Spread(Spread(Spread(Spread(Spread(EmptyObject,
                                       <<Prop("console", safeConsole)>>),
                                <<Prop("setResult", Core("setResult"))>>),
                         [n \in DOMAIN AllowListed |-> Prop(AllowListed[n], Core(AllowListed[n]))]),
                  BrowserGlobals(window)),
           in)

createSafeEnvironment(in, window) ==
    Spread(Spread(Spread(Spread(Spread(EmptyObject, in),
                                <<Prop("console", safeConsole)>>),
                         <<Prop("setResult", Core("setResult"))>>),
                  [n \in DOMAIN AllowListed |-> Prop(AllowListed[n], Core(AllowListed[n]))]),
           BrowserGlobals(window))

(***************************************************************************)
(* State                                                                   *)
(***************************************************************************)

VARIABLES
    code,             \* the request: source text
    input,            \* the request: input map
    timeout,          \* the request: timeout
    onLog,            \* is an onLog sink registered
    viaWrapper,       \* is execute called by safeJsRun
    hasWindow,        \* the host: typeof window !== "undefined"
    pc,               \* where execute is
    startTime,        \* execute's startTime
    logs,             \* the array execute allocates for the logs
    securityError,    \* the verdict of validateCodeSafety
    safeGlobals,      \* the environment, EmptyObject until it is built
    executionResult,  \* __executionResult, the result slot
    scope,            \* the parameters of the constructed function, once called
    p1,               \* the promise of the code execution
    p2,               \* the promise of the timeout
    raceP,            \* the promise of Promise.race
    executeP,         \* the promise execute returns
    wrapperP,         \* the promise safeJsRun returns
    cur,              \* the job that is running: none, handler, body or cb
    microQ,           \* the microtask queue
    timers,           \* the pending timers
    now,              \* Date.now()
    fuel,             \* calls the sandboxed code may still make
    spawns,           \* callbacks the sandboxed code may still schedule
    calls,            \* history: the console calls the code issued
    sink,             \* history: the calls forwarded to the onLog sink
    written,          \* history: the arguments of the setResult calls
    reads,            \* history: the number of getResult() calls
    bodyEnd,          \* history: the time the synchronous body ended, -1 before
    bodyCalls,        \* history: the number of console calls at that time
    bodyWrites,       \* history: the number of setResult calls at that time
    returnCalls,      \* history: the number of console calls when execute returned
    parked,           \* the other activation of execute, suspended between its jobs
    handler,          \* the worker's onmessage call that runs this activation
    inbox,            \* the worker: messages sent to it and not yet handled
    outbox            \* the worker: responses it posted

vars == <<code, input, timeout, onLog, viaWrapper, hasWindow, pc, startTime,
          logs, securityError, safeGlobals, executionResult, scope, p1, p2,
          raceP, executeP, wrapperP, cur, microQ, timers, now, fuel, spawns,
          calls, sink, written, reads, bodyEnd, bodyCalls, bodyWrites,
          returnCalls, parked, handler, inbox, outbox>>

request == <<code, input, timeout, onLog, viaWrapper, hasWindow>>

budget == <<fuel, spawns>>

history == <<calls, sink, written, reads, bodyEnd, bodyCalls, bodyWrites,
             returnCalls>>

\* the state that belongs to a second activation and to the worker
others == <<parked, handler, inbox, outbox>>

(***************************************************************************)
(* The inputs of the model                                                 *)
(***************************************************************************)

\* source texts of the requests whose execution is explored in full
SampleCodes == {<<"x">>, Chars["top"]}

\* pieces of source text; a scanned code text is a concatenation of them
Fragments == {Chars["top"], <<"T", "O", "P">>, Chars["File"], <<"s">>,
              <<" ">>, <<"/", "/">>, <<"'">>}

RECURSIVE Texts(_)
Texts(n) ==
    IF n = 0 THEN {<<>>}
    ELSE LET shorter == Texts(n - 1)
         IN shorter \cup {t \o f : t \in shorter, f \in Fragments}

\* a word in upper case
Upper(w) == [n \in DOMAIN w |-> Canonicalize(w[n])]

\* pieces of code that each match one or two of the checks of the
\* validation, and one that matches none
Snippets == {
    Chars["window"],
    Chars["top"],
    Chars["top"] \o <<".">> \o Chars["window"],
    Chars["eval"] \o <<"(">>,
    Chars["while"] \o <<"(">> \o Chars["true"] \o <<")">>,
    Chars["for"] \o <<"(", ";", ";", ")">>,
    <<"'", "+", "'">>,
    <<"x">> \o Chars["eval"] \o <<"(">>,
    Chars["Function"] \o <<"(">>,
    <<"x">> }

\* the texts of up to n snippets, each followed by a space
RECURSIVE Joined(_)
Joined(n) ==
    IF n = 0 THEN {<<>>}
    ELSE LET shorter == Joined(n - 1)
         IN shorter \cup {t \o p \o <<" ">> : t \in shorter, p \in Snippets}

\* runs of up to n white space characters
RECURSIVE Runs(_)
Runs(n) ==
    IF n = 0 THEN {<<>>}
    ELSE LET shorter == Runs(n - 1)
         IN shorter \cup {r \o <<c>> : r \in shorter, c \in SpaceChars}

\* the white space put in the n gaps between the tokens of a text: none, the
\* same run in every gap, or a run in one gap only
Gaps(n) ==
    {[g \in 1..n |-> r] : r \in Runs(MaxSpaces)}
        \cup {[g \in 1..n |-> IF g = at THEN r ELSE <<>>] :
                at \in 1..n, r \in Runs(MaxSpaces)}

\* the tokens with the gaps between them
RECURSIVE Spaced(_, _)
Spaced(tokens, gaps) ==
    IF Len(tokens) <= 1 THEN (IF tokens = <<>> THEN <<>> ELSE tokens[1])
    ELSE tokens[1] \o gaps[1] \o Spaced(Tail(tokens), Tail(gaps))

\* what a text starts with: nothing, or a statement before it
Prefixes == {<<>>, <<"x", ";">>}

\* loop headers while(c) and for(;c;) with a condition that is true, 1, empty
\* or a variable, in lower and in upper case
LoopTexts ==
    {p \o Spaced(<<kw, <<"(">>, c, <<")">>>>, g) :
        p \in Prefixes, kw \in {Chars["while"], Upper(Chars["while"])},
        c \in {Chars["true"], <<"1">>, <<"x">>}, g \in Gaps(3)}
    \cup
    {p \o Spaced(<<kw, <<"(">>, <<";">>, c, <<";">>, <<")">>>>, g) :
        p \in Prefixes, kw \in {Chars["for"], Upper(Chars["for"])},
        c \in {<<>>, Chars["true"], <<"x">>}, g \in Gaps(5)}

\* the word function in the case of the keyword
function == <<"f", "u", "n", "c", "t", "i", "o", "n">>

\* calls of Function with and without new, function expressions, function
\* declarations, after nothing, a forbidden keyword or the start of a name
FunctionTexts ==
    {p \o n \o w \o b \o <<"(">> :
        p \in {<<>>, Chars["top"] \o <<" ">>, <<"m", "y">>},
        n \in {<<>>} \cup {Chars["new"] \o r : r \in Runs(MaxSpaces) \ {<<>>}},
        w \in {Chars["Function"], function},
        b \in Runs(MaxSpaces) \cup {<<" ", "f">>,
                                    <<" ", "m", "y">> \o Chars["Function"]}}

\* an arrow function
ArrowText == <<"(", "x", ")", "=", ">", "x">>

\* source texts of the requests whose validation is explored
PatternTexts == Joined(MaxFrags) \cup LoopTexts \cup FunctionTexts \cup {ArrowText}

\* keys of the input maps: plain names, the name of a hook, of an allow-listed
\* object and of a browser API, and a key that is not an identifier
InputKeys == <<"x", "setResult", "Math", "setTimeout", "a-b">>

InputValues == {Num(10), Num(5)}

\* the input maps with the keys InputKeys[n] of a set ns of indices
RECURSIVE MapsOver(_)
MapsOver(ns) ==
    IF ns = {} THEN {EmptyObject}
    ELSE LET last == CHOOSE n \in ns : \A m \in ns : m <= n
         IN {Append(o, Prop(InputKeys[last], v)) :
                o \in MapsOver(ns \ {last}), v \in InputValues}

Inputs ==
    UNION {MapsOver(ns) : ns \in {ks \in SUBSET DOMAIN InputKeys : Cardinality(ks) <= MaxKeys}}

\* input maps of the requests whose execution is explored in full
SampleInputs == {<<Prop("x", Num(10)), Prop("y", Num(5))>>}

\* argument lists of the console calls
LogArgs == {<<Str(<<"hello">>)>>, <<Str(<<"hello">>), Str(<<"world">>)>>}

\* arguments of the setResult calls
ResultValues == {Num(42), Undefined}

\* delays of the timers of the sandboxed code: none, or as long as a timeout
Delays == {0, MaxTimeout}

\* how long the body of the sandboxed code runs: no time, or past any timeout
Durations == {0, MaxTime}

\* values the sandboxed code throws
ThrownValues == {ErrorVal("Error", <<"boom">>), ErrorVal("Error", <<>>),
                 Str(<<"boom">>), Null, Undefined}

\* input keys that are not identifiers
NotIdentifiers == {"a-b"}

(***************************************************************************)
(* execute                                                                 *)
(***************************************************************************)

\* the logs field of an outcome is the array execute allocated, not a copy
LogsRef == [ref |-> "logs"]

FailureOutcome(error, executionTime) ==
    [success |-> FALSE, error |-> error, logs |-> LogsRef,
     executionTime |-> executionTime]

SuccessOutcome(result, executionTime) ==
    [success |-> TRUE, result |-> result, logs |-> LogsRef,
     executionTime |-> executionTime]

TimeoutError(ms) ==
    ErrorVal("Error", <<"Execution timeout: ", ToString(ms), "ms limit exceeded">>)

\* the arguments passed in the reverse order of the names
BindReversed(names, args) ==
    [k \in {names[n] : n \in DOMAIN names} |->
        args[Len(args) + 1 - (CHOOSE n \in DOMAIN names : names[n] = k)]]

\* func(...args) of func = new Function(...names, body): the parameters
Bind(names, args) ==
    [k \in {names[n] : n \in DOMAIN names} |->
        args[CHOOSE n \in DOMAIN names : names[n] = k]]

\* new Function(...names, body) accepts the names as formal parameters
ValidParams(names) == \A n \in DOMAIN names : names[n] \notin NotIdentifiers

\* the executor of the code promise has settled it with p, taking some
\* time: execute goes on to create the timeout promise, calls Promise.race
\* and awaits its promise
RaceAndAwait(p, took) ==
    /\ p1' = p
    /\ now' = now + took
    /\ bodyEnd' = now'
    /\ bodyCalls' = Len(calls)
    /\ bodyWrites' = Len(written)
    /\ timers' = timers \cup {[kind |-> "timeout", due |-> now' + timeout, id |-> 0]}
    /\ microQ' = Append(microQ, "raceSettle")
    /\ pc' = "await"
    /\ cur' = "none"

\* execute without the return on a security error
CallWithoutReturn ==
    /\ pc = "init"
    /\ startTime' = now
    /\ logs' = <<>>
    /\ securityError' = validateCodeSafety(code)
    /\ safeGlobals' = createSafeEnvironment(input, hasWindow)
    /\ executionResult' = Undefined
    /\ pc' = "construct"
    /\ cur' = "body"
    /\ UNCHANGED <<request, others, scope, p1, p2, raceP, executeP, wrapperP, microQ,
                   timers, now, budget, history>>

\* execute up to the end of createSafeEnvironment
Call ==
    /\ pc = "init"
    /\ startTime' = now
    /\ logs' = <<>>
    /\ securityError' = validateCodeSafety(code)
    /\ IF securityError' # Null
       THEN /\ executeP' = Fulfilled(FailureOutcome(securityError', now - startTime'))
            /\ returnCalls' = Len(calls)
            /\ pc' = "returned"
            /\ cur' = "none"
            /\ microQ' = IF viaWrapper THEN Append(microQ, "wrapper") ELSE microQ
            /\ UNCHANGED <<safeGlobals, executionResult>>
       ELSE /\ safeGlobals' = createSafeEnvironment(input, hasWindow)
            /\ executionResult' = Undefined
            /\ pc' = "construct"
            /\ cur' = "body"
            /\ UNCHANGED <<executeP, microQ, returnCalls>>
    /\ UNCHANGED <<request, others, scope, p1, p2, raceP, wrapperP, timers, now, budget,
                   calls, sink, written, reads, bodyEnd, bodyCalls,
                   bodyWrites>>

\* new Function(...Object.keys(safeGlobals), wrappedCode) and the call of it
Construct ==
    /\ pc = "construct"
    /\ \E parses \in BOOLEAN :
        IF parses /\ ValidParams(ObjectKeys(safeGlobals))
        THEN /\ scope' = Bind(ObjectKeys(safeGlobals), ObjectValues(safeGlobals))
             /\ pc' = "body"
             /\ UNCHANGED <<p1, now, bodyEnd, bodyCalls, bodyWrites, timers,
                           microQ, cur>>
        ELSE /\ RaceAndAwait(Rejected(ErrorVal("SyntaxError", <<"Unexpected token">>)), 0)
             /\ UNCHANGED scope
    /\ UNCHANGED <<request, others, startTime, logs, securityError, safeGlobals,
                   executionResult, p2, raceP, executeP, wrapperP, budget,
                   calls, sink, written, reads, returnCalls>>

\* the sandboxed code is running: the body of the function or a callback
Running == (cur = "body" /\ pc = "body") \/ cur = "cb"

\* logs.unshift(args)
logCaptureFirst(log, args) == <<args>> \o log

\* logCapture: logs.push(args)
logCapture(log, args) == Append(log, args)

\* console.log, info, warn, error, debug or trace: logCapture(...args), which
\* also calls onLog(...args) if there is one
ConsoleCall(args) ==
    /\ Running
    /\ fuel > 0
    /\ scope["console"] = safeConsole
    /\ logs' = logCapture(logs, args)
    /\ sink' = IF onLog THEN Append(sink, args) ELSE sink
    /\ calls' = Append(calls, args)
    /\ fuel' = fuel - 1
    /\ UNCHANGED <<request, others, pc, startTime, securityError, safeGlobals,
                   executionResult, scope, p1, p2, raceP, executeP, wrapperP,
                   cur, microQ, timers, now, spawns, written, reads, bodyEnd,
                   bodyCalls, bodyWrites, returnCalls>>

\* setResult that keeps the first value written
SetResultCallOnce(value) ==
    /\ Running
    /\ fuel > 0
    /\ scope["setResult"] = Core("setResult")
    /\ executionResult' = IF written = <<>> THEN value ELSE executionResult
    /\ written' = Append(written, value)
    /\ fuel' = fuel - 1
    /\ UNCHANGED <<request, others, pc, startTime, logs, securityError, safeGlobals,
                   scope, p1, p2, raceP, executeP, wrapperP, cur, microQ,
                   timers, now, spawns, calls, sink, reads, bodyEnd, bodyCalls,
                   bodyWrites, returnCalls>>

\* setResult(value)
SetResultCall(value) ==
    /\ Running
    /\ fuel > 0
    /\ scope["setResult"] = Core("setResult")
    /\ executionResult' = value
    /\ written' = Append(written, value)
    /\ fuel' = fuel - 1
    /\ UNCHANGED <<request, others, pc, startTime, logs, securityError, safeGlobals,
                   scope, p1, p2, raceP, executeP, wrapperP, cur, microQ,
                   timers, now, spawns, calls, sink, reads, bodyEnd, bodyCalls,
                   bodyWrites, returnCalls>>

\* Promise.resolve().then(callback), or an await in an async function
ThenCall ==
    /\ Running
    /\ spawns > 0
    /\ scope["Promise"] = Core("Promise")
    /\ microQ' = Append(microQ, "user")
    /\ spawns' = spawns - 1
    /\ UNCHANGED <<request, others, pc, startTime, logs, securityError, safeGlobals,
                   executionResult, scope, p1, p2, raceP, executeP, wrapperP,
                   cur, timers, now, fuel, history>>

\* setTimeout(callback, delay), in a host that has a window
SetTimeoutCall(delay) ==
    /\ Running
    /\ spawns > 0
    /\ "setTimeout" \in DOMAIN scope
    /\ scope["setTimeout"] = Core("setTimeout")
    /\ timers' = timers \cup {[kind |-> "user", due |-> now + delay, id |-> spawns]}
    /\ spawns' = spawns - 1
    /\ UNCHANGED <<request, others, pc, startTime, logs, securityError, safeGlobals,
                   executionResult, scope, p1, p2, raceP, executeP, wrapperP,
                   cur, microQ, now, fuel, history>>

\* the body of the function returns after some time: resolve(undefined)
BodyReturn(took) ==
    /\ cur = "body" /\ pc = "body"
    /\ RaceAndAwait(Fulfilled(Undefined), took)
    /\ UNCHANGED <<request, others, startTime, logs, securityError, safeGlobals,
                   executionResult, scope, p2, raceP, executeP, wrapperP,
                   budget, calls, sink, written, reads, returnCalls>>

\* the body of the function throws after some time: reject(error)
BodyThrow(error, took) ==
    /\ cur = "body" /\ pc = "body"
    /\ RaceAndAwait(Rejected(error), took)
    /\ UNCHANGED <<request, others, startTime, logs, securityError, safeGlobals,
                   executionResult, scope, p2, raceP, executeP, wrapperP,
                   budget, calls, sink, written, reads, returnCalls>>

\* a callback of the sandboxed code returns or throws
CallbackEnd ==
    /\ cur = "cb"
    /\ cur' = "none"
    /\ UNCHANGED <<request, others, pc, startTime, logs, securityError, safeGlobals,
                   executionResult, scope, p1, p2, raceP, executeP, wrapperP,
                   microQ, timers, now, budget, history>>

(***************************************************************************)
(* The event loop: microtasks first, then timers                           *)
(***************************************************************************)

NextJob(kind) == cur = "none" /\ microQ # <<>> /\ Head(microQ) = kind

\* a then-callback of the sandboxed code starts
RunCallback ==
    /\ NextJob("user")
    /\ microQ' = Tail(microQ)
    /\ cur' = "cb"
    /\ UNCHANGED <<request, others, pc, startTime, logs, securityError, safeGlobals,
                   executionResult, scope, p1, p2, raceP, executeP, wrapperP,
                   timers, now, budget, history>>

\* Promise.race: a reaction to promise p settles the race if it is first
RaceReaction(kind, p) ==
    /\ NextJob(kind)
    /\ IF raceP = Pending
       THEN /\ raceP' = p
            /\ microQ' = Append(Tail(microQ), "resume")
       ELSE /\ microQ' = Tail(microQ)
            /\ UNCHANGED raceP
    /\ UNCHANGED <<request, others, pc, startTime, logs, securityError, safeGlobals,
                   executionResult, scope, p1, p2, executeP, wrapperP, cur,
                   timers, now, budget, history>>

RaceSettle == RaceReaction("raceSettle", p1)

RaceTimeout == RaceReaction("raceTimeout", p2)

\* an execute that calls clearTimeout on its timeout timer when it resumes
ResumeClearingTimeout ==
    /\ NextJob("resume")
    /\ pc = "await"
    /\ IF raceP.state = "fulfilled"
       THEN /\ executeP' = Fulfilled(SuccessOutcome(executionResult, now - startTime))
            /\ reads' = reads + 1
       ELSE /\ executeP' =
                IF raceP.reason \in {Null, Undefined}
                THEN Rejected(ErrorVal("TypeError",
                        <<"Cannot read properties of ", raceP.reason.t,
                          " (reading 'message')">>))
                ELSE Fulfilled(FailureOutcome(
                        OrElse(MessageOf(raceP.reason), Str(<<"Unknown execution error">>)),
                        now - startTime))
            /\ UNCHANGED reads
    /\ returnCalls' = Len(calls)
    /\ pc' = "returned"
    /\ timers' = {t \in timers : t.kind # "timeout"}
    /\ microQ' = IF viaWrapper THEN Append(Tail(microQ), "wrapper") ELSE Tail(microQ)
    /\ UNCHANGED <<request, others, startTime, logs, securityError, safeGlobals,
                   executionResult, scope, p1, p2, raceP, wrapperP, cur,
                   now, budget, calls, sink, written, bodyEnd, bodyCalls,
                   bodyWrites>>

\* execute after the await: the return in the try block or the catch block
Resume ==
    /\ NextJob("resume")
    /\ pc = "await"
    /\ IF raceP.state = "fulfilled"
       THEN /\ executeP' = Fulfilled(SuccessOutcome(executionResult, now - startTime))
            /\ reads' = reads + 1
       ELSE /\ executeP' =
                IF raceP.reason \in {Null, Undefined}
                THEN Rejected(ErrorVal("TypeError",
                        <<"Cannot read properties of ", raceP.reason.t,
                          " (reading 'message')">>))
                ELSE Fulfilled(FailureOutcome(
                        OrElse(MessageOf(raceP.reason), Str(<<"Unknown execution error">>)),
                        now - startTime))
            /\ UNCHANGED reads
    /\ returnCalls' = Len(calls)
    /\ pc' = "returned"
    /\ microQ' = IF viaWrapper THEN Append(Tail(microQ), "wrapper") ELSE Tail(microQ)
    /\ UNCHANGED <<request, others, startTime, logs, securityError, safeGlobals,
                   executionResult, scope, p1, p2, raceP, wrapperP, cur,
                   timers, now, budget, calls, sink, written, bodyEnd, bodyCalls,
                   bodyWrites>>

\* a host that runs a due timer while microtasks are still queued
TimerDueBeforeMicrotasks(t) ==
    /\ cur = "none"
    /\ t \in timers
    /\ t.due <= now
    /\ \A u \in timers : t.due <= u.due

\* the timer of the timeout promise fires: reject(new Error(...))
TimerDue(t) ==
    /\ cur = "none" /\ microQ = <<>>
    /\ t \in timers
    /\ t.due <= now
    /\ \A u \in timers : t.due <= u.due

TimeoutFires ==
    \E t \in timers :
        /\ TimerDue(t)
        /\ t.kind = "timeout"
        /\ timers' = timers \ {t}
        /\ p2' = Rejected(TimeoutError(timeout))
        /\ microQ' = <<"raceTimeout">>
        /\ UNCHANGED <<request, others, pc, startTime, logs, securityError, safeGlobals,
                       executionResult, scope, p1, raceP, executeP, wrapperP,
                       cur, now, budget, history>>

\* a timer of the sandboxed code fires: its callback starts
UserTimerFires ==
    \E t \in timers :
        /\ TimerDue(t)
        /\ t.kind = "user"
        /\ timers' = timers \ {t}
        /\ cur' = "cb"
        /\ UNCHANGED <<request, others, pc, startTime, logs, securityError, safeGlobals,
                       executionResult, scope, p1, p2, raceP, executeP,
                       wrapperP, microQ, now, budget, history>>

\* the host is idle until the next timer is due
Wait ==
    /\ cur = "none" /\ microQ = <<>>
    /\ timers # {}
    /\ \A t \in timers : t.due > now
    /\ \E t \in timers :
        /\ \A u \in timers : t.due <= u.due
        /\ now' = t.due
    /\ UNCHANGED <<request, others, pc, startTime, logs, securityError, safeGlobals,
                   executionResult, scope, p1, p2, raceP, executeP, wrapperP,
                   cur, microQ, timers, budget, history>>

(***************************************************************************)
(* safeJsRun                                                               *)
(***************************************************************************)

Solution(ms) ==
    <<"JavaScript execution failed. Common issues: ... Infinite loops: Code execution times out after ",
      ToString(ms), "ms ...">>

FailureEnvelope(message) ==
    [isError |-> TRUE, error |-> message, solution |-> Solution(timeout)]

\* safeJsRun without the ifFail handler
WrapperWithoutIfFail ==
    /\ NextJob("wrapper")
    /\ microQ' = IF handler = NoHandler THEN Tail(microQ)
                 ELSE Append(Tail(microQ), "post")
    /\ wrapperP' =
        IF executeP.state = "rejected"
        THEN Rejected(executeP.reason)
        ELSE LET result == executeP.value
             IN IF ~result.success
                THEN Rejected(ErrorVal("Error",
                        OrElse(result.error, Str(<<"Code execution failed">>)).v))
                ELSE Fulfilled([result |-> result.result, logs |-> result.logs,
                                executionTime |-> <<ToString(result.executionTime), "ms">>,
                                success |-> TRUE])
    /\ UNCHANGED <<request, others, pc, startTime, logs, securityError, safeGlobals,
                   executionResult, scope, p1, p2, raceP, executeP, cur,
                   timers, now, budget, history>>

\* the function given to safe() after its await, and the ifFail handler
Wrapper ==
    /\ NextJob("wrapper")
    /\ microQ' = IF handler = NoHandler THEN Tail(microQ)
                 ELSE Append(Tail(microQ), "post")
    /\ wrapperP' =
        IF executeP.state = "rejected"
        THEN Fulfilled(FailureEnvelope(MessageOf(executeP.reason)))
        ELSE LET result == executeP.value
             IN IF ~result.success
                THEN Fulfilled(FailureEnvelope(
                        OrElse(result.error, Str(<<"Code execution failed">>))))
                ELSE Fulfilled([result |-> result.result, logs |-> result.logs,
                                executionTime |-> <<ToString(result.executionTime), "ms">>,
                                success |-> TRUE])
    /\ UNCHANGED <<request, others, pc, startTime, logs, securityError, safeGlobals,
                   executionResult, scope, p1, p2, raceP, executeP, cur,
                   timers, now, budget, history>>

(***************************************************************************)
(* The worker (src/components/safe-js-worker.ts)                           *)
(***************************************************************************)

\* the types of the messages sent to the worker
MessageTypes == {"execute", "ping"}

\* the ids of the messages, in the order they are sent
MessageIds == <<"a", "b">>

\* can the structured clone of postMessage copy the envelope: not a function
Cloneable(envelope) ==
    "result" \notin DOMAIN envelope \/ envelope.result.t # "core"

\* { id: id, ...result }, as the structured clone of postMessage copies it
SuccessResponse(id, result) ==
    [k \in DOMAIN result \cup {"id"} |->
        IF k \in DOMAIN result
        THEN (IF k = "logs" THEN logs ELSE result[k])
        ELSE id]

\* the response of the catch block
ErrorResponse(id, error) ==
    [id |-> id, isError |-> TRUE,
     error |-> OrElse(MessageOf(error), Str(<<"Execution failed">>)),
     solution |-> <<"Failed to execute JavaScript code. Please try again.">>]

DataCloneError == ErrorVal("DataCloneError", <<"The object could not be cloned.">>)

\* self.onmessage that takes a message of any type for a request
OnMessageAnyType ==
    /\ handler.state = "idle"
    /\ cur = "none" /\ microQ = <<>>
    /\ inbox # <<>>
    /\ inbox' = Tail(inbox)
    /\ handler' = [handler EXCEPT !.state = "running", !.type = Head(inbox).type,
                                  !.id = Head(inbox).id]
    /\ pc' = "init"
    /\ cur' = "handler"
    /\ UNCHANGED <<request, parked, outbox, startTime, logs, securityError,
                   safeGlobals, executionResult, scope, p1, p2, raceP,
                   executeP, wrapperP, microQ, timers, now, budget, history>>

\* self.onmessage up to the call of safeJsRun: a message that is not of
\* type "execute" is dropped
OnMessage ==
    /\ handler.state = "idle"
    /\ cur = "none" /\ microQ = <<>>
    /\ inbox # <<>>
    /\ inbox' = Tail(inbox)
    /\ IF Head(inbox).type = "execute"
       THEN /\ handler' = [handler EXCEPT !.state = "running",
                                          !.type = Head(inbox).type,
                                          !.id = Head(inbox).id]
            /\ pc' = "init"
            /\ cur' = "handler"
       ELSE /\ handler' = [handler EXCEPT !.state = "dropped",
                                          !.type = Head(inbox).type,
                                          !.id = Head(inbox).id]
            /\ UNCHANGED <<pc, cur>>
    /\ UNCHANGED <<request, parked, outbox, startTime, logs, securityError,
                   safeGlobals, executionResult, scope, p1, p2, raceP,
                   executeP, wrapperP, microQ, timers, now, budget, history>>

\* self.onmessage after its await: postMessage of the envelope and, if that
\* or safeJsRun throws, postMessage of the error response
Post ==
    /\ NextJob("post")
    /\ microQ' = Tail(microQ)
    /\ LET response ==
            IF wrapperP.state = "rejected"
            THEN ErrorResponse(handler.id, wrapperP.reason)
            ELSE IF Cloneable(wrapperP.value)
            THEN SuccessResponse(handler.id, wrapperP.value)
            ELSE ErrorResponse(handler.id, DataCloneError)
       IN /\ outbox' = Append(outbox, response)
          /\ handler' = [handler EXCEPT !.state = "done",
                                        !.posts = Append(@, response)]
    /\ UNCHANGED <<request, parked, inbox, pc, startTime, logs, securityError,
                   safeGlobals, executionResult, scope, p1, p2, raceP,
                   executeP, wrapperP, cur, timers, now, budget, history>>

(***************************************************************************)
(* Two activations of execute on one event loop.  The variables of execute *)
(* hold the activation whose job runs or ran last; the other one is parked *)
(* with its jobs and timers marked, and the two change places when a job   *)
(* of the parked one is next.                                              *)
(***************************************************************************)

\* the mark of the jobs and timers of the parked activation
Marked ==
       ("user" :> "~user") @@ ("raceSettle" :> "~raceSettle")
    @@ ("raceTimeout" :> "~raceTimeout") @@ ("resume" :> "~resume")
    @@ ("wrapper" :> "~wrapper") @@ ("post" :> "~post")
    @@ ("timeout" :> "~timeout")

Flip(kind) ==
    IF kind \in DOMAIN Marked THEN Marked[kind]
    ELSE CHOOSE k \in DOMAIN Marked : Marked[k] = kind

IsMarked(kind) == kind \notin DOMAIN Marked

\* what an activation of execute and its closures own
Activation ==
    [code |-> code, input |-> input, timeout |-> timeout, onLog |-> onLog,
     viaWrapper |-> viaWrapper, pc |-> pc, startTime |-> startTime,
     logs |-> logs, securityError |-> securityError,
     safeGlobals |-> safeGlobals, executionResult |-> executionResult,
     scope |-> scope, p1 |-> p1, p2 |-> p2, raceP |-> raceP,
     executeP |-> executeP, wrapperP |-> wrapperP, fuel |-> fuel,
     spawns |-> spawns, calls |-> calls, sink |-> sink, written |-> written,
     reads |-> reads, bodyEnd |-> bodyEnd, bodyCalls |-> bodyCalls,
     bodyWrites |-> bodyWrites,
     returnCalls |-> returnCalls, handler |-> handler]

\* a request that execute has not been called for
Unstarted(a) == a.pc = "init" \/ a.handler.state = "idle"

\* the job or the timer that the event loop takes next belongs to the parked
\* activation, or the host calls execute for the parked request
ParkedIsNext ==
    \/ microQ # <<>> /\ IsMarked(Head(microQ))
    \/ /\ microQ = <<>>
       /\ \E t \in timers :
            /\ IsMarked(t.kind)
            /\ t.due <= now
            /\ \A u \in timers : t.due <= u.due
    \/ /\ Unstarted(parked) /\ ~Unstarted(Activation)
       /\ parked.handler.state = "idle" => (inbox # <<>> /\ microQ = <<>>)

\* the activations change places, the logs array and the result slot shared
SwitchSharing ==
    /\ cur = "none"
    /\ parked # NoActivation
    /\ ParkedIsNext
    /\ parked' = Activation
    /\ code' = parked.code /\ input' = parked.input /\ timeout' = parked.timeout
    /\ onLog' = parked.onLog /\ viaWrapper' = parked.viaWrapper
    /\ pc' = parked.pc /\ startTime' = parked.startTime
    /\ securityError' = parked.securityError
    /\ safeGlobals' = parked.safeGlobals
    /\ scope' = parked.scope
    /\ p1' = parked.p1 /\ p2' = parked.p2 /\ raceP' = parked.raceP
    /\ executeP' = parked.executeP /\ wrapperP' = parked.wrapperP
    /\ fuel' = parked.fuel /\ spawns' = parked.spawns
    /\ calls' = parked.calls /\ sink' = parked.sink /\ written' = parked.written
    /\ reads' = parked.reads /\ bodyEnd' = parked.bodyEnd
    /\ bodyCalls' = parked.bodyCalls /\ bodyWrites' = parked.bodyWrites
    /\ returnCalls' = parked.returnCalls
    /\ handler' = parked.handler
    /\ microQ' = [n \in DOMAIN microQ |-> Flip(microQ[n])]
    /\ timers' = {[t EXCEPT !.kind = Flip(@)] : t \in timers}
    /\ UNCHANGED <<logs, executionResult, hasWindow, cur, now, inbox, outbox>>

\* the activations change places: each has the logs array execute allocated
\* for it and the result slot createSafeEnvironment allocated for it
Switch ==
    /\ cur = "none"
    /\ parked # NoActivation
    /\ ParkedIsNext
    /\ parked' = Activation
    /\ code' = parked.code /\ input' = parked.input /\ timeout' = parked.timeout
    /\ onLog' = parked.onLog /\ viaWrapper' = parked.viaWrapper
    /\ pc' = parked.pc /\ startTime' = parked.startTime
    /\ logs' = parked.logs
    /\ securityError' = parked.securityError
    /\ safeGlobals' = parked.safeGlobals
    /\ executionResult' = parked.executionResult
    /\ scope' = parked.scope
    /\ p1' = parked.p1 /\ p2' = parked.p2 /\ raceP' = parked.raceP
    /\ executeP' = parked.executeP /\ wrapperP' = parked.wrapperP
    /\ fuel' = parked.fuel /\ spawns' = parked.spawns
    /\ calls' = parked.calls /\ sink' = parked.sink /\ written' = parked.written
    /\ reads' = parked.reads /\ bodyEnd' = parked.bodyEnd
    /\ bodyCalls' = parked.bodyCalls /\ bodyWrites' = parked.bodyWrites
    /\ returnCalls' = parked.returnCalls
    /\ handler' = parked.handler
    /\ microQ' = [n \in DOMAIN microQ |-> Flip(microQ[n])]
    /\ timers' = {[t EXCEPT !.kind = Flip(@)] : t \in timers}
    /\ UNCHANGED <<hasWindow, cur, now, inbox, outbox>>

(***************************************************************************)
(* Specifications                                                          *)
(***************************************************************************)

Idle ==
    /\ pc = "init"
    /\ startTime = 0
    /\ logs = <<>>
    /\ securityError = Null
    /\ safeGlobals = EmptyObject
    /\ executionResult = Undefined
    /\ scope = EmptyObject
    /\ p1 = Pending /\ p2 = Pending /\ raceP = Pending
    /\ executeP = Pending /\ wrapperP = Pending
    /\ cur = "none"
    /\ microQ = <<>>
    /\ timers = {}
    /\ now = 0
    /\ calls = <<>> /\ sink = <<>> /\ written = <<>> /\ reads = 0
    /\ bodyEnd = -1 /\ bodyCalls = 0 /\ bodyWrites = 0 /\ returnCalls = 0

\* a single call of execute or safeJsRun, outside the worker
Alone ==
    /\ parked = NoActivation
    /\ handler = NoHandler
    /\ inbox = <<>>
    /\ outbox = <<>>

\* safeJsRun always registers a sink; a direct caller of execute may not
Hosts ==
    /\ timeout = MaxTimeout
    /\ viaWrapper \in BOOLEAN
    /\ onLog \in BOOLEAN
    /\ viaWrapper => onLog
    /\ hasWindow \in BOOLEAN

Init ==
    /\ code \in SampleCodes
    /\ input \in SampleInputs
    /\ Hosts
    /\ fuel = MaxOps /\ spawns = MaxCallbacks
    /\ Idle
    /\ Alone

Next ==
    \/ Call
    \/ Construct
    \/ \E args \in LogArgs : ConsoleCall(args)
    \/ \E value \in ResultValues : SetResultCall(value)
    \/ ThenCall
    \/ \E delay \in Delays : SetTimeoutCall(delay)
    \/ \E took \in Durations : BodyReturn(took)
    \/ \E error \in ThrownValues, took \in Durations : BodyThrow(error, took)
    \/ CallbackEnd
    \/ RunCallback
    \/ RaceSettle
    \/ RaceTimeout
    \/ Resume
    \/ TimeoutFires
    \/ UserTimerFires
    \/ Wait
    \/ Wrapper

Spec == Init /\ [][Next]_vars

\* many source texts, each run through safeJsRun in a browser with an empty
\* input, the sandboxed code making a single call
ScanInit ==
    /\ code \in Texts(MaxFrags)
    /\ input = EmptyObject
    /\ timeout = 1
    /\ viaWrapper = TRUE /\ onLog = TRUE /\ hasWindow = TRUE
    /\ fuel = 1 /\ spawns = 1
    /\ Idle
    /\ Alone

ScanSpec == ScanInit /\ [][Next]_vars

\* many input maps, each run through safeJsRun, the sandboxed code making a
\* single call
EnvInit ==
    /\ code \in SampleCodes
    /\ input \in Inputs
    /\ timeout = 1
    /\ viaWrapper = TRUE /\ onLog = TRUE
    /\ hasWindow \in BOOLEAN
    /\ fuel = 1 /\ spawns = 1
    /\ Idle
    /\ Alone

EnvSpec == EnvInit /\ [][Next]_vars

\* the activation of a request before execute is called for it, as Idle
Request(c, waiting) ==
    [code |-> c, input |-> CHOOSE i \in SampleInputs : TRUE,
     timeout |-> MaxTimeout, onLog |-> TRUE, viaWrapper |-> TRUE,
     pc |-> IF waiting THEN "waiting" ELSE "init", startTime |-> 0,
     logs |-> <<>>, securityError |-> Null, safeGlobals |-> EmptyObject,
     executionResult |-> Undefined, scope |-> EmptyObject, p1 |-> Pending,
     p2 |-> Pending, raceP |-> Pending, executeP |-> Pending,
     wrapperP |-> Pending, fuel |-> 1, spawns |-> 1, calls |-> <<>>,
     sink |-> <<>>, written |-> <<>>, reads |-> 0, bodyEnd |-> -1,
     bodyCalls |-> 0, bodyWrites |-> 0, returnCalls |-> 0,
     handler |-> IF waiting THEN [NoHandler EXCEPT !.state = "idle"]
                 ELSE NoHandler]

\* two requests, the sandboxed code of each making a single call: either
\* safeJsRun is called for both in a browser, or both are sent to the worker,
\* which has no window, before it handles the first
PairInit ==
    /\ \E worker \in BOOLEAN, c1 \in SampleCodes, c2 \in SampleCodes :
        /\ LET first == Request(c1, worker)
           IN /\ code = first.code /\ input = first.input
              /\ timeout = first.timeout /\ onLog = first.onLog
              /\ viaWrapper = first.viaWrapper /\ pc = first.pc
              /\ startTime = first.startTime /\ logs = first.logs
              /\ securityError = first.securityError
              /\ safeGlobals = first.safeGlobals
              /\ executionResult = first.executionResult
              /\ scope = first.scope /\ p1 = first.p1 /\ p2 = first.p2
              /\ raceP = first.raceP /\ executeP = first.executeP
              /\ wrapperP = first.wrapperP /\ fuel = first.fuel
              /\ spawns = first.spawns /\ calls = first.calls
              /\ sink = first.sink /\ written = first.written
              /\ reads = first.reads /\ bodyEnd = first.bodyEnd
              /\ bodyCalls = first.bodyCalls
              /\ bodyWrites = first.bodyWrites
              /\ returnCalls = first.returnCalls
              /\ handler = first.handler
        /\ parked = Request(c2, worker)
        /\ hasWindow = ~worker
        /\ inbox \in (IF worker
                      THEN {[n \in DOMAIN MessageIds |->
                                [type |-> ts[n], id |-> MessageIds[n]]] :
                            ts \in [DOMAIN MessageIds -> MessageTypes]}
                      ELSE {<<>>})
    /\ outbox = <<>>
    /\ cur = "none"
    /\ microQ = <<>>
    /\ timers = {}
    /\ now = 0

\* the steps of a request whose body takes no time, with one thrown value
\* and, among the values given to setResult, a function
ShortNext ==
    \/ Call
    \/ Construct
    \/ \E args \in LogArgs : ConsoleCall(args)
    \/ \E value \in ResultValues \cup {Core("setResult")} : SetResultCall(value)
    \/ ThenCall
    \/ \E delay \in Delays : SetTimeoutCall(delay)
    \/ BodyReturn(0)
    \/ BodyThrow(ErrorVal("Error", <<"boom">>), 0)
    \/ CallbackEnd
    \/ RunCallback
    \/ RaceSettle
    \/ RaceTimeout
    \/ Resume
    \/ TimeoutFires
    \/ UserTimerFires
    \/ Wait
    \/ Wrapper

PairNext ==
    \/ ShortNext
    \/ Switch
    \/ OnMessage
    \/ Post

PairSpec == PairInit /\ [][PairNext]_vars

\* many source texts built around the patterns of the validation, each run
\* through safeJsRun in a browser with an empty input, the sandboxed code
\* making a single call
PatternInit ==
    /\ code \in PatternTexts
    /\ input = EmptyObject
    /\ timeout = 1
    /\ viaWrapper = TRUE /\ onLog = TRUE /\ hasWindow = TRUE
    /\ fuel = 1 /\ spawns = 1
    /\ Idle
    /\ Alone

PatternSpec == PatternInit /\ [][ShortNext]_vars

(***************************************************************************)
(* Properties                                                              *)
(***************************************************************************)

\* the array an outcome's logs field refers to
Deref(ref) == logs

\* values of the same type that are equal
Same(a, b) == a.t = b.t /\ a = b

\* C1: a request whose code fails validateCodeSafety never has its
\* environment built nor its code run, and execute returns for it the
\* outcome with success = false, the rejection reason as error and no logs
C1_RejectedNeverRuns ==
    securityError # Null =>
        /\ safeGlobals = EmptyObject
        /\ scope = EmptyObject
        /\ p1 = Pending
        /\ calls = <<>> /\ written = <<>>
        /\ pc # "init" =>
            /\ pc = "returned"
            /\ executeP.state = "fulfilled"
            /\ executeP.value.success = FALSE
            /\ executeP.value.error = securityError
            /\ Deref(executeP.value.logs) = <<>>

C1_Witness ==
    /\ pc = "returned"
    /\ securityError # Null
    /\ executeP.state = "fulfilled"
    /\ wrapperP.state = "fulfilled"

\* text contains word as a whole word, in any letter case: an occurrence
\* with no word character right before it and none right after it
ContainsWord(text, word) ==
    \E i \in 1..(Len(text) - Len(word) + 1) :
        /\ \A j \in 1..Len(word) : Canonicalize(text[i + j - 1]) = Canonicalize(word[j])
        /\ ~IsWordAt(text, i - 1)
        /\ ~IsWordAt(text, i + Len(word))

ContainsKeyword(text) ==
    \E k \in DOMAIN FORBIDDEN_KEYWORDS : ContainsWord(text, Chars[FORBIDDEN_KEYWORDS[k]])

\* C3: code that contains an identifier of FORBIDDEN_KEYWORDS as a whole
\* word, in any letter case and any context, is rejected by the validation
\* with a forbidden-keyword reason and is never executed
C3_KeywordRejected ==
    ContainsKeyword(code) =>
        /\ safeGlobals = EmptyObject
        /\ scope = EmptyObject
        /\ calls = <<>> /\ written = <<>>
        /\ pc # "init" =>
            /\ securityError # Null
            /\ securityError.v[1] = "Forbidden keyword: '"
            /\ executeP.state = "fulfilled"
            /\ executeP.value.success = FALSE
            /\ executeP.value.error = securityError

\* the keyword in upper case inside a comment
C3_Witness ==
    /\ code = <<"/", "/", "T", "O", "P">>
    /\ pc = "returned"
    /\ securityError # Null

\* the names the sandbox binds itself, and the value it binds each to
SandboxNames ==
    {"console", "setResult"}
        \cup {AllowListed[n] : n \in DOMAIN AllowListed}
        \cup (IF hasWindow THEN {BrowserApis[n] : n \in DOMAIN BrowserApis} ELSE {})

OwnValue(name) == IF name = "console" THEN safeConsole ELSE Core(name)

\* C4: whatever the keys of the input map, the environment binds every
\* allow-listed name and every hook to the core's own value, and so do the
\* parameters of the function that runs the code
C4_NoShadowing ==
    safeGlobals # EmptyObject =>
        \A name \in SandboxNames :
            /\ Has(safeGlobals, name)
            /\ Same(Get(safeGlobals, name), OwnValue(name))
            /\ scope # EmptyObject => Same(scope[name], OwnValue(name))

\* an input map with the key of a hook, its code running
C4_Witness ==
    /\ Has(input, "setResult")
    /\ scope # EmptyObject
    /\ pc = "body"

\* the step in which execute, resumed after its await, returns
Returns == pc = "await" /\ pc' = "returned"

\* C2: validated code that runs longer than the timeout ends in the outcome
\* with success = false and the timeout message that names the budget, with
\* the console calls made so far in its logs
C2_TimeoutOutcome ==
    (pc = "returned" /\ securityError = Null /\ bodyEnd - startTime > timeout) =>
        /\ executeP.state = "fulfilled"
        /\ executeP.value.success = FALSE
        /\ executeP.value.error = Str(TimeoutError(timeout).message)
        /\ Len(Deref(executeP.value.logs)) >= bodyCalls

\* the argument of the last setResult call, undefined if there was none
LastWritten == IF written = <<>> THEN Undefined ELSE written[Len(written)]

\* C5, as amended: when validated code completes normally the outcome has
\* success = true and its result is the argument of the last setResult call
\* made before execute returns (undefined if there was none); the result slot
\* is read once, at that return, and is never read when the execution fails
\* or the code is rejected
C5_ResultIsLastWrite ==
    [][/\ (Returns /\ p1.state = "fulfilled") =>
            /\ executeP'.state = "fulfilled"
            /\ executeP'.value.success = TRUE
            /\ Same(executeP'.value.result, LastWritten)
            /\ reads = 0 /\ reads' = 1
       /\ ~(Returns /\ p1.state = "fulfilled") => reads' = reads]_vars

\* two different values written, the outcome holding the second
C5_Witness ==
    /\ pc = "returned"
    /\ executeP.state = "fulfilled"
    /\ executeP.value.success = TRUE
    /\ Len(written) = 2
    /\ ~Same(written[1], written[2])
    /\ Same(executeP.value.result, written[2])
    /\ reads = 1

\* C5 as stated: the slot is read exactly once also when the execution fails
C5_Original ==
    [][Returns =>
        /\ reads' = 1
        /\ p1.state = "fulfilled" =>
            /\ executeP'.state = "fulfilled"
            /\ executeP'.value.success = TRUE
            /\ Same(executeP'.value.result, LastWritten)]_vars

C7_LogsInCallOrder ==
    /\ logs = calls
    /\ sink = (IF onLog THEN calls ELSE <<>>)
    /\ executeP.state = "fulfilled" => Deref(executeP.value.logs) = calls
    /\ (wrapperP.state = "fulfilled" /\ "logs" \in DOMAIN wrapperP.value) =>
            Deref(wrapperP.value.logs) = calls

\* a call of the body and then a different call of a callback that ran
\* before execute returned
C7_Witness ==
    /\ pc = "returned"
    /\ executeP.state = "fulfilled"
    /\ onLog
    /\ Len(calls) = 2
    /\ calls[1] # calls[2]
    /\ bodyCalls = 1 /\ returnCalls = 2

SuccessFields == {"result", "logs", "executionTime", "success"}

FailureFields == {"isError", "error", "solution"}

\* C8: safeJsRun never rejects and, once execute has settled and the host
\* is idle, has returned its one envelope: the success envelope exactly if
\* the outcome has success = true, the failure envelope otherwise; the
\* envelope it returned is not replaced
C8_OneEnvelope ==
    /\ [](/\ wrapperP.state # "rejected"
          /\ ~viaWrapper => wrapperP = Pending
          /\ (viaWrapper /\ executeP.state # "pending" /\ cur = "none" /\ microQ = <<>>)
                => wrapperP.state = "fulfilled"
          /\ wrapperP.state = "fulfilled" =>
                /\ executeP.state # "pending"
                /\ IF executeP.state = "fulfilled" /\ executeP.value.success
                   THEN /\ DOMAIN wrapperP.value = SuccessFields
                        /\ wrapperP.value.success = TRUE
                        /\ wrapperP.value.result = executeP.value.result
                        /\ wrapperP.value.logs = executeP.value.logs
                   ELSE /\ DOMAIN wrapperP.value = FailureFields
                        /\ wrapperP.value.isError = TRUE
                        /\ wrapperP.value.error.t = "string"
                        /\ wrapperP.value.error.v # <<>>)
    /\ [][wrapperP.state = "fulfilled" => wrapperP' = wrapperP]_vars

\* execute itself rejected, and safeJsRun returned the failure envelope
C8_Witness ==
    /\ executeP.state = "rejected"
    /\ wrapperP.state = "fulfilled"
    /\ DOMAIN wrapperP.value = FailureFields

HasBadKey == \E n \in DOMAIN input : input[n].key \in NotIdentifiers

C10_Immutable ==
    [][executeP.state = "fulfilled" =>
        /\ executeP' = executeP
        /\ Deref(executeP.value.logs)' = Deref(executeP.value.logs)]_vars

\* the two activations of PairSpec
Both == {Activation, parked}

\* C11: when the executions of two requests interleave, callbacks included,
\* the logs of each hold exactly the console calls its own code issued, and
\* the result of each outcome is a value its own code gave to setResult, or
\* undefined
C11_NoSharedState ==
    \A a \in Both :
        /\ a.logs = a.calls
        /\ (a.executeP.state = "fulfilled" /\ a.executeP.value.success) =>
            \/ Same(a.executeP.value.result, Undefined)
            \/ \E n \in DOMAIN a.written : Same(a.executeP.value.result, a.written[n])

\* two requests started in the same tick and both have their outcome; a
\* timer callback of one is running and has made a console call, after the
\* other, which wrote a result and logged nothing, returned
C11_Witness ==
    \E a \in Both, b \in Both :
        /\ a = Activation /\ b = parked
        /\ cur = "cb"
        /\ a.startTime = b.startTime
        /\ a.executeP.state = "fulfilled" /\ a.executeP.value.success
        /\ b.executeP.state = "fulfilled" /\ b.executeP.value.success
        /\ a.written = <<>> /\ Len(a.calls) = 1 /\ a.returnCalls = 0
        /\ b.calls = <<>> /\ b.written = <<Num(42)>>
        /\ Same(b.executeP.value.result, Num(42))

\* C12: every message of type "execute" the worker has handled has, once the
\* event loop is idle, exactly one response; the response has the id of its
\* message and either the success fields of the outcome of that message's
\* own code or isError, error and solution; a message of another type starts
\* no execution and has no response; the worker posts nothing else
C12_OneResponsePerMessage ==
    /\ \A a \in Both :
        /\ Len(a.handler.posts) <= 1
        /\ a.handler.type # "execute" =>
            /\ a.handler.state \in {"none", "idle", "dropped"}
            /\ a.handler.posts = <<>>
        /\ a.handler.state = "dropped" => a.pc = "waiting"
        /\ (a.handler.type = "execute" /\ cur = "none" /\ microQ = <<>>) =>
                Len(a.handler.posts) = 1
        /\ \A n \in DOMAIN a.handler.posts :
            LET r == a.handler.posts[n]
            IN /\ r.id = a.handler.id
               /\ IF /\ a.executeP.state = "fulfilled"
                     /\ a.executeP.value.success
                     /\ a.executeP.value.result.t # "core"
                  THEN /\ DOMAIN r = SuccessFields \cup {"id"}
                       /\ r.success = TRUE
                       /\ r.result = a.executeP.value.result
                       /\ Len(r.logs) <= Len(a.calls)
                       /\ r.logs = SubSeq(a.calls, 1, Len(r.logs))
                  ELSE /\ DOMAIN r = FailureFields \cup {"id"}
                       /\ r.isError = TRUE
                       /\ r.error.t = "string" /\ r.error.v # <<>>
    /\ Len(outbox) = Len(Activation.handler.posts) + Len(parked.handler.posts)
    /\ \A n \in DOMAIN outbox : \E a \in Both : a.handler.posts = <<outbox[n]>>

\* two messages of type "execute" sent before the first was handled: the
\* response to the first has its id and the success fields, the response to
\* the second its id and the failure fields
C12_Witness ==
    /\ Len(outbox) = 2
    /\ outbox[1].id = MessageIds[1]
    /\ DOMAIN outbox[1] = SuccessFields \cup {"id"}
    /\ outbox[1].logs # <<>>
    /\ outbox[2].id = MessageIds[2]
    /\ DOMAIN outbox[2] = FailureFields \cup {"id"}

\* the checks of the validation that the code matches
KeywordHit(k) == RegExpTest(KeywordRegExp(FORBIDDEN_KEYWORDS[k]), code)

LoopHit(l) == RegExpTest(infiniteLoopPatterns[l].pattern, code)

SuspiciousHit(p) == RegExpTest(suspiciousPatterns[p].pattern, code)

KeywordReason(k) ==
    Str(<<"Forbidden keyword: '", FORBIDDEN_KEYWORDS[k],
          "' - not allowed for security reasons">>)

LoopReason(l) ==
    Str(<<"Dangerous infinite loop pattern: ", infiniteLoopPatterns[l].message>>)

SuspiciousReason(p) ==
    Str(<<"Suspicious pattern detected: ", suspiciousPatterns[p].message>>)

NoKeywordHit == \A k \in DOMAIN FORBIDDEN_KEYWORDS : ~KeywordHit(k)

NoLoopHit == \A l \in DOMAIN infiniteLoopPatterns : ~LoopHit(l)

\* the step in which execute calls validateCodeSafety
Validates == pc = "init" /\ pc' # "init"

\* C13: the verdict of the validation is the reason of the first check that
\* matches, the checks taken in the order: the denylist in list order, the
\* infinite-loop patterns, the suspicious patterns; so code that matches a
\* denylisted identifier and a structural pattern gets the forbidden-keyword
\* reason of the earliest matching entry of the denylist
C13_FirstMatchWins ==
    [][Validates =>
        /\ \A k \in DOMAIN FORBIDDEN_KEYWORDS :
            (KeywordHit(k) /\ \A m \in 1..(k - 1) : ~KeywordHit(m))
                => securityError' = KeywordReason(k)
        /\ NoKeywordHit =>
            \A l \in DOMAIN infiniteLoopPatterns :
                (LoopHit(l) /\ \A m \in 1..(l - 1) : ~LoopHit(m))
                    => securityError' = LoopReason(l)
        /\ (NoKeywordHit /\ NoLoopHit) =>
            \A p \in DOMAIN suspiciousPatterns :
                (SuspiciousHit(p) /\ \A m \in 1..(p - 1) : ~SuspiciousHit(m))
                    => securityError' = SuspiciousReason(p)
        /\ (NoKeywordHit /\ NoLoopHit /\ \A p \in DOMAIN suspiciousPatterns : ~SuspiciousHit(p))
            => securityError' = Null
        /\ securityError' # Null =>
            /\ executeP'.state = "fulfilled"
            /\ executeP'.value.error = securityError']_vars

\* "while(true) top.window ": an infinite loop and two denylisted words,
\* the later one in the text being the earlier one in the list
C13_Witness ==
    /\ code = Chars["while"] \o <<"(">> \o Chars["true"] \o <<")", " ">>
                \o Chars["top"] \o <<".">> \o Chars["window"] \o <<" ">>
    /\ pc = "returned"
    /\ securityError = KeywordReason(1)
    /\ executeP.value.error = securityError

\* the first position from i on that holds no white space
SkipBlanks(text, i) ==
    CHOOSE j \in i..(Len(text) + 1) :
        /\ j > Len(text) \/ text[j] \notin SpaceChars
        /\ \A m \in i..(j - 1) : text[m] \in SpaceChars

\* the word stands at position i of the text, letter for letter
IsAt(text, i, word) ==
    /\ i + Len(word) - 1 <= Len(text)
    /\ \A n \in DOMAIN word : text[i + n - 1] = word[n]

\* the word stands at position i of the text, in any letter case
IsAtAnyCase(text, i, word) ==
    /\ i + Len(word) - 1 <= Len(text)
    /\ \A n \in DOMAIN word : Canonicalize(text[i + n - 1]) = Canonicalize(word[n])

\* the character after the white space from position i on is ch
ThenComes(text, i, ch) ==
    LET j == SkipBlanks(text, i) IN j <= Len(text) /\ text[j] = ch

\* the text holds a call of the identifier Function, with or without new
HasFunctionCall(text) ==
    \E i \in DOMAIN text :
        /\ IsAt(text, i, Chars["Function"])
        /\ ~IsWordAt(text, i - 1)
        /\ ThenComes(text, i + Len(Chars["Function"]), "(")

\* the reason of the check for the Function constructor, the 4th pattern
FunctionConstructor == Str(<<"Suspicious pattern detected: ", "Function constructor">>)

\* no check before the n-th suspicious pattern matches the code
PassesBefore(n) ==
    NoKeywordHit /\ NoLoopHit /\ \A m \in 1..(n - 1) : ~SuspiciousHit(m)

\* code that the validation rejected is never run
RejectedIsNotRun ==
    securityError # Null =>
        /\ safeGlobals = EmptyObject /\ scope = EmptyObject
        /\ p1 = Pending /\ timers = {}
        /\ calls = <<>> /\ written = <<>>
        /\ executeP.state = "fulfilled"
        /\ executeP.value.success = FALSE
        /\ executeP.value.error = securityError

\* C14, as amended: code that holds a call of Function, with or without new,
\* is rejected by the validation and never run; the reason names the
\* Function constructor exactly if no earlier check matches the code (no
\* denylisted word, no infinite-loop pattern, none of the three suspicious
\* patterns before it), and is the reason of the first such check otherwise
C14_FunctionCallRejected ==
    /\ []RejectedIsNotRun
    /\ [][/\ pc # "init" => securityError' = securityError
          /\ (Validates /\ HasFunctionCall(code)) =>
                /\ securityError' # Null
                /\ securityError' = FunctionConstructor <=> PassesBefore(4)]_vars

\* "new Function(" rejected for the Function constructor
C14_Witness ==
    /\ code = Chars["new"] \o <<" ">> \o Chars["Function"] \o <<"(">>
    /\ pc = "returned"
    /\ securityError = FunctionConstructor
    /\ wrapperP.state = "fulfilled"

\* C14 as stated: the reason always names the Function constructor
C14_Original ==
    [][(Validates /\ HasFunctionCall(code)) =>
            securityError' = FunctionConstructor]_vars

\* the tokens stand in the text from position i on, in any letter case, with
\* any white space between one token and the next
RECURSIVE TokensAt(_, _, _)
TokensAt(text, i, tokens) ==
    /\ IsAtAnyCase(text, i, Head(tokens))
    /\ \/ Len(tokens) = 1
       \/ TokensAt(text, SkipBlanks(text, i + Len(Head(tokens))), Tail(tokens))

\* the headers of the loops that never end: while(true), while(1), for(;;)
\* and for(;true;)
LoopHeaders == {
    <<Chars["while"], <<"(">>, Chars["true"], <<")">>>>,
    <<Chars["while"], <<"(">>, <<"1">>, <<")">>>>,
    <<Chars["for"], <<"(">>, <<";">>, <<";">>, <<")">>>>,
    <<Chars["for"], <<"(">>, <<";">>, Chars["true"], <<";">>, <<")">>>> }

ContainsLoopHeader(text) ==
    \E h \in LoopHeaders : \E i \in DOMAIN text : TokensAt(text, i, h)

\* C15: code that holds the header of a loop while(true), while(1), for(;;)
\* or for(;true;), in any letter case and with any white space between its
\* tokens, is rejected by the validation, for the infinite loop unless it
\* also holds a denylisted word; it is never run, no timeout timer is started
\* for it, and its outcome is the rejection, not a timeout
C15_LoopHeaderRejected ==
    /\ []RejectedIsNotRun
    /\ [][/\ pc # "init" => securityError' = securityError
          /\ (Validates /\ ContainsLoopHeader(code)) =>
                /\ securityError' # Null
                /\ NoKeywordHit =>
                    securityError'.v[1] = "Dangerous infinite loop pattern: "
                /\ pc' = "returned"
                /\ executeP'.value.error = securityError']_vars

\* "WHILE (true)" rejected as an infinite while loop
C15_Witness ==
    /\ code = Upper(Chars["while"]) \o <<" ", "(">> \o Chars["true"] \o <<")">>
    /\ pc = "returned"
    /\ securityError = LoopReason(1)
    /\ wrapperP.state = "fulfilled"
    /\ timers = {}

(***************************************************************************)
(* C16: the outcome is final once the synchronous body has ended           *)
(***************************************************************************)

\* the argument of the last setResult call of the synchronous body
LastWrittenByBody == IF bodyWrites = 0 THEN Undefined ELSE written[bodyWrites]

\* the step in which a timer callback of the sandboxed code starts
TimerCallbackStarts == cur = "none" /\ cur' = "cb" /\ timers' # timers

\* C16, as amended: execute returns its outcome right after the synchronous
\* body has returned or thrown, once the microtasks queued meanwhile have
\* run and before any timer can fire; for validated code whose body does not
\* throw the outcome has success = true and its result is the argument of
\* the last setResult call made by the body or by a promise callback that
\* runs before execute resumes; timer callbacks start only after the return,
\* nothing that happens after the return changes the outcome, and the end
\* of a callback (by return or by throw) changes no outcome and no envelope
C16_FinalAtBodyEnd ==
    [][/\ Returns => now = bodyEnd
       /\ (Returns /\ p1.state = "fulfilled") =>
            /\ executeP'.state = "fulfilled"
            /\ executeP'.value.success = TRUE
            /\ Same(executeP'.value.result, LastWritten)
       /\ TimerCallbackStarts => pc = "returned"
       /\ pc = "returned" => executeP' = executeP
       /\ cur = "cb" => (executeP' = executeP /\ wrapperP' = wrapperP)]_vars

\* the body never called setResult, a promise callback did before execute
\* resumed, and the outcome holds that value
C16_Witness ==
    /\ pc = "returned"
    /\ bodyWrites = 0
    /\ written # <<>>
    /\ executeP.state = "fulfilled"
    /\ executeP.value.success = TRUE
    /\ Same(executeP.value.result, written[1])
    /\ ~Same(written[1], Undefined)

\* C16 as stated: the result reflects only the setResult calls of the
\* synchronous body
C16_Original ==
    [][(Returns /\ p1.state = "fulfilled") =>
            /\ executeP'.state = "fulfilled"
            /\ executeP'.value.success = TRUE
            /\ Same(executeP'.value.result, LastWrittenByBody)]_vars

(***************************************************************************)
(* C17: the timeout timer outlives the execution                           *)
(***************************************************************************)

\* the timeout timer is among the pending timers
TimeoutPending(ts) == \E t \in ts : t.kind = "timeout"

\* C17: the timeout timer of a validated execution is never cancelled: when
\* execute returns, and from then on until the timer fires, the timer is
\* pending; it leaves the timers only by firing, which happens after the
\* return; its firing and the reaction of Promise.race to the rejected
\* timeout promise leave the outcome and the envelope as they are, settle
\* no promise of the execution again and resume nothing
C17_TimeoutNeverCancelled ==
    /\ []((pc = "returned" /\ securityError = Null /\ p2 = Pending) =>
            TimeoutPending(timers))
    /\ [][/\ Returns => TimeoutPending(timers')
          /\ (TimeoutPending(timers) /\ ~TimeoutPending(timers')) =>
                /\ pc = "returned"
                /\ p2 = Pending
                /\ p2' = Rejected(TimeoutError(timeout))
                /\ microQ' = <<"raceTimeout">>
                /\ executeP' = executeP /\ wrapperP' = wrapperP
          /\ NextJob("raceTimeout") =>
                /\ raceP # Pending
                /\ raceP' = raceP
                /\ executeP' = executeP /\ wrapperP' = wrapperP
                /\ pc' = pc
                /\ microQ' = Tail(microQ)]_vars

\* execute has returned a success, later the timeout timer has fired and
\* the race has reacted to it: the outcome is still the success
C17_Witness ==
    /\ pc = "returned"
    /\ securityError = Null
    /\ p2 = Rejected(TimeoutError(timeout))
    /\ microQ = <<>>
    /\ ~TimeoutPending(timers)
    /\ raceP.state = "fulfilled"
    /\ executeP.state = "fulfilled"
    /\ executeP.value.success = TRUE

(***************************************************************************)
(* C18: the check for the Function constructor and function expressions    *)
(***************************************************************************)

FUNCTION == <<"F", "U", "N", "C", "T", "I", "O", "N">>

\* the letters of "function" stand at position i of the text, each of them
\* in either case
FunctionWordAt(text, i) ==
    /\ i + Len(function) - 1 <= Len(text)
    /\ \A n \in DOMAIN function : text[i + n - 1] \in {function[n], FUNCTION[n]}

\* somewhere in the text the letters of "function" are followed, after
\* optional white space, by "("
ContainsFunctionParen(text) ==
    \E i \in DOMAIN text :
        /\ FunctionWordAt(text, i)
        /\ ThenComes(text, i + Len(function), "(")

\* function(
AnonymousFunction == function \o <<"(">>

\* function f(
NamedDeclaration == function \o <<" ", "f", "(">>

\* C18: code that passes all checks before the one for the Function
\* constructor is rejected with the reason "Suspicious pattern detected:
\* Function constructor" exactly if it holds the letters of "function", in
\* any letter case, followed after optional white space by "("; so the
\* anonymous function expression function(...) is rejected, and the named
\* declaration function f(...) and the arrow function (x)=>x pass that check
\* (and the whole validation)
C18_FunctionExpressionRejected ==
    [][/\ (Validates /\ PassesBefore(4)) =>
            (securityError' = FunctionConstructor <=> ContainsFunctionParen(code))
       /\ (Validates /\ code = AnonymousFunction) =>
            securityError' = FunctionConstructor
       /\ (Validates /\ code \in {NamedDeclaration, ArrowText}) =>
            securityError' = Null]_vars

\* the lower-case function( rejected for the Function constructor
C18_Witness ==
    /\ code = AnonymousFunction
    /\ pc = "returned"
    /\ securityError = FunctionConstructor
    /\ executeP.state = "fulfilled"
    /\ executeP.value.success = FALSE
    /\ executeP.value.error = FunctionConstructor

====
